---- MODULE Spec2Model ----
(***************************************************************************)
(* The interactive session of backlog-cli (src/main.rs): the App state,    *)
(* its methods, the key dispatch of run_tui and run_tui's control flow     *)
(* with the terminal set-up and tear-down around the key loop.             *)
(*                                                                         *)
(* A String is modelled as the sequence of its code points (integers), so  *)
(* that chars().count() is Len and String::len() is the UTF-8 byte length. *)
(* Indices are 0-based as in the source; item i of the store is            *)
(* backlog[i + 1].                                                         *)
(***************************************************************************)
EXTENDS Integers, Sequences, FiniteSets, TLC

\* ------------------------------------------------------------------ bounds
\* Largest number of items the store holds (Add is not offered beyond it).
MaxItems == 2
\* Largest number of code points typed into edit_buffer.
MaxLen == 1
\* Largest number of saves that fail in one session.
MaxSaveFailures == 1
\* Largest number of items the store of a browsing session starts with.
MaxBrowseItems == 3
\* Largest number of items the store of a viewing session starts with.
MaxViewItems == 3
\* Length of the longest description of a viewing session, in code points.
MaxViewLen == 5

\* ------------------------------------------------------------- characters
\* Code points used by the key bindings of run_tui.
ch_q == 113
ch_J == 74
ch_K == 75
ch_j == 106
ch_k == 107
ch_x == 120
ch_e == 101
ch_a == 97
ch_h == 104
ch_d == 100
ch_y == 121
ch_n == 110
\* A character with no binding, and one that takes two bytes in UTF-8.
ch_z == 122
ch_eacute == 233

\* Bytes char c occupies in a String (UTF-8).
len_utf8(c) ==
    IF c < 128 THEN 1 ELSE IF c < 2048 THEN 2 ELSE IF c < 65536 THEN 3 ELSE 4

RECURSIVE str_len(_)
\* String::len(): the length in bytes, not in code points.
str_len(s) == IF s = <<>> THEN 0 ELSE len_utf8(Head(s)) + str_len(Tail(s))

\* chars().count(): the length in code points.
chars_count(s) == Len(s)

\* Vec::remove(i) and Vec::insert(i, c) on the Vec<char> of a String,
\* for indices inside the bounds (the callers decide the panics).
vec_remove(s, i) == SubSeq(s, 1, i) \o SubSeq(s, i + 2, Len(s))
vec_insert(s, i, c) == SubSeq(s, 1, i) \o <<c>> \o SubSeq(s, i + 1, Len(s))

\* ------------------------------------------------------------------ items
\* Option<usize>::None
None == 0 - 1

\* Option<String> of App::output
NoOutput == [some |-> FALSE, value |-> <<>>]
SomeOutput(v) == [some |-> TRUE, value |-> v]

BacklogItem(description, created_at, done) ==
    [description |-> description, created_at |-> created_at, done |-> done]

\* App::new. The field file is the Backlog stored at backlog_path, and
\* save_result the io::Result of the last self.save() of the key being
\* handled ("none" when the handler did not save).
App_new(backlog, file) ==
    [backlog |-> backlog, file |-> file, selected |-> 0, scroll_offset |-> 0,
     mode |-> "Normal", edit_buffer |-> <<>>, edit_cursor |-> 0,
     output |-> NoOutput, pending_d |-> FALSE, hide_completed |-> FALSE,
     save_result |-> "none"]

\* ------------------------------------------------------ visibility filter
visible_indices(self) ==
    LET n == Len(self.backlog)
        RECURSIVE from(_)
        from(i) ==
            IF i >= n THEN <<>>
            ELSE (IF ~self.hide_completed \/ ~self.backlog[i + 1].done
                  THEN <<i>> ELSE <<>>) \o from(i + 1)
    IN from(0)

\* visible_to_actual that takes the row number for the store index.
visible_to_actual_unfiltered(self, visible_idx) ==
    IF visible_idx < Len(self.backlog) THEN visible_idx ELSE None

visible_to_actual(self, visible_idx) ==
    LET visible == visible_indices(self)
    IN IF visible_idx < Len(visible) THEN visible[visible_idx + 1] ELSE None

actual_to_visible(self, actual_idx) ==
    LET visible == visible_indices(self)
        hits == {p \in 0..(Len(visible) - 1) : visible[p + 1] = actual_idx}
    IN IF hits = {} THEN None ELSE CHOOSE p \in hits : \A r \in hits : p <= r

\* The re-clamp of selected that toggle_hide_completed, toggle_done and
\* delete_selected each spell out.
clamp_selected(self) ==
    LET visible == visible_indices(self)
    IN IF Len(visible) = 0 THEN [self EXCEPT !.selected = 0]
       ELSE IF self.selected >= Len(visible)
            THEN [self EXCEPT !.selected = Len(visible) - 1]
            ELSE self

\* ------------------------------------------------------------ App methods
\* toggle_hide_completed that switches the filter on, never off.
toggle_hide_completed_on(self) ==
    clamp_selected([self EXCEPT !.hide_completed = TRUE])

\* toggle_hide_completed without the re-clamp of selected.
toggle_hide_completed_noclamp(self) ==
    [self EXCEPT !.hide_completed = ~self.hide_completed]

toggle_hide_completed(self) ==
    clamp_selected([self EXCEPT !.hide_completed = ~self.hide_completed])

\* App::save through save_backlog: ok is whether create_dir_all and
\* fs::write succeed. A failed save leaves the file as it was.
save(self, ok) ==
    IF ok THEN [self EXCEPT !.file = self.backlog, !.save_result = "ok"]
    ELSE [self EXCEPT !.save_result = "err"]

move_up(self) ==
    IF self.selected > 0 THEN [self EXCEPT !.selected = self.selected - 1]
    ELSE self

move_down(self) ==
    LET visible_count == Len(visible_indices(self))
    IN IF visible_count > 0 /\ self.selected < visible_count - 1
       THEN [self EXCEPT !.selected = self.selected + 1]
       ELSE self

\* toggle_done that forgets to save.
toggle_done_nosave(self, ok) ==
    LET actual_idx == visible_to_actual(self, self.selected)
    IN IF actual_idx = None THEN self
       ELSE LET flipped == [self EXCEPT !.backlog[actual_idx + 1].done = ~@]
            IN IF flipped.hide_completed /\ flipped.backlog[actual_idx + 1].done
               THEN clamp_selected(flipped)
               ELSE flipped

\* toggle_done that gives up (self.save()?) when the save fails, before the
\* re-clamp of selected.
toggle_done_try(self, ok) ==
    LET actual_idx == visible_to_actual(self, self.selected)
    IN IF actual_idx = None THEN self
       ELSE LET flipped == [self EXCEPT !.backlog[actual_idx + 1].done = ~@]
                saved == save(flipped, ok)
            IN IF ok /\ saved.hide_completed /\ saved.backlog[actual_idx + 1].done
               THEN clamp_selected(saved)
               ELSE saved

\* toggle_done that flips the item at index selected of the store, not the
\* item of the selected visible row.
toggle_done_unfiltered(self, ok) ==
    IF visible_to_actual(self, self.selected) = None THEN self
    ELSE LET flipped == [self EXCEPT !.backlog[self.selected + 1].done = ~@]
             saved == save(flipped, ok)
         IN IF saved.hide_completed /\ saved.backlog[self.selected + 1].done
            THEN clamp_selected(saved)
            ELSE saved

toggle_done(self, ok) ==
    LET actual_idx == visible_to_actual(self, self.selected)
    IN IF actual_idx = None THEN self
       ELSE LET flipped == [self EXCEPT !.backlog[actual_idx + 1].done = ~@]
                saved == save(flipped, ok)
            IN IF saved.hide_completed /\ saved.backlog[actual_idx + 1].done
               THEN clamp_selected(saved)
               ELSE saved

\* Vec::swap(i, j)
vec_swap(items, i, j) ==
    [items EXCEPT ![i + 1] = items[j + 1], ![j + 1] = items[i + 1]]

move_item_up(self, ok) ==
    LET actual_idx == visible_to_actual(self, self.selected)
    IN IF actual_idx = None \/ ~(actual_idx > 0) THEN self
       ELSE LET swapped ==
                    [self EXCEPT
                        !.backlog = vec_swap(@, actual_idx, actual_idx - 1)]
                new_visible_idx == actual_to_visible(swapped, actual_idx - 1)
                followed ==
                    IF new_visible_idx # None
                    THEN [swapped EXCEPT !.selected = new_visible_idx]
                    ELSE swapped
            IN save(followed, ok)

\* move_item_down that does not follow the moved item with selected.
move_item_down_nofollow(self, ok) ==
    LET actual_idx == visible_to_actual(self, self.selected)
    IN IF actual_idx = None \/ ~(actual_idx < Len(self.backlog) - 1) THEN self
       ELSE save([self EXCEPT
                     !.backlog = vec_swap(@, actual_idx, actual_idx + 1)], ok)

move_item_down(self, ok) ==
    LET actual_idx == visible_to_actual(self, self.selected)
    IN IF actual_idx = None \/ ~(actual_idx < Len(self.backlog) - 1) THEN self
       ELSE LET swapped ==
                    [self EXCEPT
                        !.backlog = vec_swap(@, actual_idx, actual_idx + 1)]
                new_visible_idx == actual_to_visible(swapped, actual_idx + 1)
                followed ==
                    IF new_visible_idx # None
                    THEN [swapped EXCEPT !.selected = new_visible_idx]
                    ELSE swapped
            IN save(followed, ok)

enter_edit_mode(self) ==
    LET actual_idx == visible_to_actual(self, self.selected)
    IN IF actual_idx = None THEN self
       ELSE LET description == self.backlog[actual_idx + 1].description
            IN [self EXCEPT !.edit_buffer = description,
                            !.edit_cursor = str_len(description),
                            !.mode = "Edit"]

\* confirm_edit that writes the item at index selected of the store, not
\* the item of the selected visible row.
confirm_edit_unfiltered(self, ok) ==
    LET edited ==
            IF visible_to_actual(self, self.selected) = None THEN self
            ELSE save([self EXCEPT !.backlog[self.selected + 1].description =
                                       self.edit_buffer], ok)
    IN [edited EXCEPT !.mode = "Normal"]

confirm_edit(self, ok) ==
    LET actual_idx == visible_to_actual(self, self.selected)
        edited ==
            IF actual_idx = None THEN self
            ELSE save([self EXCEPT !.backlog[actual_idx + 1].description =
                                       self.edit_buffer], ok)
    IN [edited EXCEPT !.mode = "Normal"]

\* cancel_edit that keeps what was typed.
cancel_edit_commits(self) ==
    LET actual_idx == visible_to_actual(self, self.selected)
    IN IF actual_idx = None THEN [self EXCEPT !.mode = "Normal"]
       ELSE [self EXCEPT !.backlog[actual_idx + 1].description = self.edit_buffer,
                         !.mode = "Normal"]

cancel_edit(self) == [self EXCEPT !.mode = "Normal"]

select_item(self) ==
    LET actual_idx == visible_to_actual(self, self.selected)
    IN IF actual_idx = None THEN self
       ELSE [self EXCEPT !.output =
                 SomeOutput(self.backlog[actual_idx + 1].description)]

\* Vec::swap_remove(i): the last element takes the place of the removed one.
vec_swap_remove(s, i) ==
    IF i + 1 = Len(s) THEN SubSeq(s, 1, Len(s) - 1)
    ELSE SubSeq([s EXCEPT ![i + 1] = s[Len(s)]], 1, Len(s) - 1)

\* delete_selected that removes with swap_remove.
delete_selected_swap(self, ok) ==
    LET actual_idx == visible_to_actual(self, self.selected)
        deleted ==
            IF actual_idx = None THEN self
            ELSE save(clamp_selected(
                     [self EXCEPT !.backlog = vec_swap_remove(@, actual_idx)]), ok)
    IN [deleted EXCEPT !.mode = "Normal"]

\* delete_selected without the re-clamp of selected.
delete_selected_noclamp(self, ok) ==
    LET actual_idx == visible_to_actual(self, self.selected)
        deleted ==
            IF actual_idx = None THEN self
            ELSE save([self EXCEPT !.backlog = vec_remove(@, actual_idx)], ok)
    IN [deleted EXCEPT !.mode = "Normal"]

delete_selected(self, ok) ==
    LET actual_idx == visible_to_actual(self, self.selected)
        deleted ==
            IF actual_idx = None THEN self
            ELSE save(clamp_selected(
                     [self EXCEPT !.backlog = vec_remove(@, actual_idx)]), ok)
    IN [deleted EXCEPT !.mode = "Normal"]

enter_add_mode(self) ==
    [self EXCEPT !.edit_buffer = <<>>, !.edit_cursor = 0, !.mode = "Add"]

\* confirm_add that selects the new item's actual index, not its visible
\* position.
confirm_add_actual(self, ok, now) ==
    LET added ==
            IF self.edit_buffer # <<>>
            THEN LET pushed ==
                         [self EXCEPT !.backlog =
                             Append(@, BacklogItem(self.edit_buffer, now, FALSE))]
                 IN save([pushed EXCEPT !.selected = Len(pushed.backlog) - 1], ok)
            ELSE self
    IN [added EXCEPT !.mode = "Normal"]

\* now is the value Utc::now() returns.
confirm_add(self, ok, now) ==
    LET added ==
            IF self.edit_buffer # <<>>
            THEN LET pushed ==
                         [self EXCEPT !.backlog =
                             Append(@, BacklogItem(self.edit_buffer, now, FALSE))]
                     visible == visible_indices(pushed)
                 IN save([pushed EXCEPT !.selected = Len(visible) - 1], ok)
            ELSE self
    IN [added EXCEPT !.mode = "Normal"]

\* cancel_add that leaves the input box open.
cancel_add_stays(self) == self

cancel_add(self) == [self EXCEPT !.mode = "Normal"]

\* ------------------------------------------------------------ key events
\* An Event of crossterm: kind is "Press" or "Release" for Event::Key (its
\* KeyEventKind) and "Resize" for any other event; code is the KeyCode, ch
\* the character of KeyCode::Char, shift whether the modifiers hold SHIFT.
KeyEvent(kind, code, ch, shift) ==
    [kind |-> kind, code |-> code, ch |-> ch, shift |-> shift]
Char(c) == KeyEvent("Press", "Char", c, FALSE)
ShiftChar(c) == KeyEvent("Press", "Char", c, TRUE)
Special(code) == KeyEvent("Press", code, 0, FALSE)
ShiftSpecial(code) == KeyEvent("Press", code, 0, TRUE)

IsChar(key, c) == key.code = "Char" /\ key.ch = c

\* What a key handler leaves behind: the App and how the loop goes on
\* ("continue", "break", or "panic" when an index is out of bounds).
Handled(self, ctl) == [app |-> self, ctl |-> ctl]

\* A handler that forgets app.pending_d = false.
disarm_forgotten(self) == self

\* A handler that ends with app.pending_d = true.
disarm_arms(self) == [self EXCEPT !.pending_d = TRUE]

\* app.pending_d = false, the last statement of most Normal-mode arms.
disarm(self) == [self EXCEPT !.pending_d = FALSE]

\* match (key.code, key.modifiers) of Mode::Normal, arm by arm.
normal_key(self, key, ok) ==
    IF IsChar(key, ch_q) \/ key.code = "Esc" THEN Handled(self, "break")
    ELSE IF IsChar(key, ch_J) /\ key.shift
        THEN Handled(disarm(move_item_down(self, ok)), "continue")
    ELSE IF IsChar(key, ch_K) /\ key.shift
        THEN Handled(disarm(move_item_up(self, ok)), "continue")
    ELSE IF key.code = "Down" /\ key.shift
        THEN Handled(disarm(move_item_down(self, ok)), "continue")
    ELSE IF key.code = "Up" /\ key.shift
        THEN Handled(disarm(move_item_up(self, ok)), "continue")
    ELSE IF IsChar(key, ch_j) \/ key.code = "Down"
        THEN Handled(disarm(move_down(self)), "continue")
    ELSE IF IsChar(key, ch_k) \/ key.code = "Up"
        THEN Handled(disarm(move_up(self)), "continue")
    ELSE IF IsChar(key, ch_x)
        THEN Handled(disarm(toggle_done(self, ok)), "continue")
    ELSE IF IsChar(key, ch_e)
        THEN Handled(disarm(enter_edit_mode(self)), "continue")
    ELSE IF IsChar(key, ch_a)
        THEN Handled(disarm(enter_add_mode(self)), "continue")
    ELSE IF IsChar(key, ch_h)
        THEN Handled(disarm(toggle_hide_completed(self)), "continue")
    ELSE IF IsChar(key, ch_d)
        THEN IF self.pending_d
             THEN Handled(disarm(delete_selected(self, ok)), "continue")
             ELSE Handled([self EXCEPT !.pending_d = TRUE], "continue")
    ELSE IF key.code = "Delete" \/ key.code = "Backspace"
        THEN Handled(disarm([self EXCEPT !.mode = "ConfirmDelete"]), "continue")
    ELSE IF key.code = "Enter" THEN Handled(select_item(self), "break")
    ELSE Handled(disarm(self), "continue")

\* ConfirmDelete whose 'y' removes the item at index selected of the store,
\* not the item of the selected visible row.
confirm_delete_key_unfiltered(self, key, ok) ==
    IF IsChar(key, ch_y)
        THEN Handled(delete_selected([self EXCEPT !.hide_completed = FALSE], ok),
                     "continue")
    ELSE IF IsChar(key, ch_n) \/ key.code = "Esc"
        THEN Handled([self EXCEPT !.mode = "Normal"], "continue")
    ELSE Handled(self, "continue")

\* match key.code of Mode::ConfirmDelete.
confirm_delete_key(self, key, ok) ==
    IF IsChar(key, ch_y) THEN Handled(delete_selected(self, ok), "continue")
    ELSE IF IsChar(key, ch_n) \/ key.code = "Esc"
        THEN Handled([self EXCEPT !.mode = "Normal"], "continue")
    ELSE Handled(self, "continue")

\* KeyCode::Backspace of Mode::Edit | Mode::Add. chars.remove(i) panics when
\* i is not an index of chars.
edit_backspace(self) ==
    IF self.edit_cursor > 0
    THEN IF self.edit_cursor - 1 >= chars_count(self.edit_buffer)
         THEN Handled(self, "panic")
         ELSE Handled([self EXCEPT
                  !.edit_buffer = vec_remove(@, self.edit_cursor - 1),
                  !.edit_cursor = self.edit_cursor - 1], "continue")
    ELSE Handled(self, "continue")

\* KeyCode::Char(c) of Mode::Edit | Mode::Add. chars.insert(i, c) panics
\* when i > chars.len().
edit_char(self, c) ==
    IF self.edit_cursor > chars_count(self.edit_buffer)
    THEN Handled(self, "panic")
    ELSE Handled([self EXCEPT
             !.edit_buffer = vec_insert(@, self.edit_cursor, c),
             !.edit_cursor = self.edit_cursor + 1], "continue")

\* match key.code of Mode::Edit | Mode::Add.
edit_key(self, key, ok, now) ==
    IF key.code = "Enter"
        THEN IF self.mode = "Add"
             THEN Handled(confirm_add(self, ok, now), "continue")
             ELSE Handled(confirm_edit(self, ok), "continue")
    ELSE IF key.code = "Esc"
        THEN IF self.mode = "Add"
             THEN Handled(cancel_add(self), "continue")
             ELSE Handled(cancel_edit(self), "continue")
    ELSE IF key.code = "Backspace" THEN edit_backspace(self)
    ELSE IF key.code = "Delete"
        THEN IF self.edit_cursor < chars_count(self.edit_buffer)
             THEN Handled([self EXCEPT
                      !.edit_buffer = vec_remove(@, self.edit_cursor)],
                      "continue")
             ELSE Handled(self, "continue")
    ELSE IF key.code = "Left"
        THEN IF self.edit_cursor > 0
             THEN Handled([self EXCEPT !.edit_cursor = self.edit_cursor - 1],
                      "continue")
             ELSE Handled(self, "continue")
    ELSE IF key.code = "Right"
        THEN IF self.edit_cursor < chars_count(self.edit_buffer)
             THEN Handled([self EXCEPT !.edit_cursor = self.edit_cursor + 1],
                      "continue")
             ELSE Handled(self, "continue")
    ELSE IF key.code = "Char" THEN edit_char(self, key.ch)
    ELSE Handled(self, "continue")

\* match app.mode for one pressed key; no save has been made for this key
\* when its handler starts.
handle_key(self, key, ok, now) ==
    LET fresh == [self EXCEPT !.save_result = "none"]
    IN IF fresh.mode = "Normal" THEN normal_key(fresh, key, ok)
       ELSE IF fresh.mode = "ConfirmDelete"
           THEN confirm_delete_key(fresh, key, ok)
       ELSE edit_key(fresh, key, ok, now)

\* ------------------------------------------------------------- the frame
\* chunks[0].height of the Layout, as the terminal size makes it.
ChunkHeights == {1, 4, 6}

\* list_height: (chunks[0].height saturating_sub 2) / 2
list_height_of(chunk_height) ==
    (IF chunk_height >= 2 THEN chunk_height - 2 ELSE 0) \div 2

\* The scroll adjustment with selected - list_height for the new offset.
adjust_scroll_short(self, list_height) ==
    IF self.selected < self.scroll_offset
    THEN [self EXCEPT !.scroll_offset = self.selected]
    ELSE IF list_height > 0 /\ self.selected >= self.scroll_offset + list_height
         THEN [self EXCEPT !.scroll_offset = self.selected - list_height]
         ELSE self

\* "Adjust scroll to keep selection visible"
adjust_scroll(self, list_height) ==
    IF self.selected < self.scroll_offset
    THEN [self EXCEPT !.scroll_offset = self.selected]
    ELSE IF list_height > 0 /\ self.selected >= self.scroll_offset + list_height
         THEN [self EXCEPT !.scroll_offset = self.selected - list_height + 1]
         ELSE self

\* ---------------------------------------------------------- the renderer
\* slice::chunks(n): consecutive pieces of n elements, the last one shorter
\* when n does not divide the length; no piece for an empty slice.
RECURSIVE chunks(_, _)
chunks(s, n) ==
    IF s = <<>> THEN <<>>
    ELSE IF Len(s) <= n THEN <<s>>
    ELSE <<SubSeq(s, 1, n)>> \o chunks(SubSeq(s, n + 1, Len(s)), n)

\* slice::chunks_exact(n): the pieces of n elements only, the rest dropped.
RECURSIVE chunks_exact(_, _)
chunks_exact(s, n) ==
    IF Len(s) < n THEN <<>>
    ELSE <<SubSeq(s, 1, n)>> \o chunks_exact(SubSeq(s, n + 1, Len(s)), n)

\* A wrapping that keeps the full lines only.
wrap_lines_exact(description, text_width) ==
    IF text_width > 0 /\ description # <<>>
    THEN chunks_exact(description, text_width)
    ELSE <<description>>

\* "Wrap the description text": the lines of one row.
wrap_lines(description, text_width) ==
    IF text_width > 0 /\ description # <<>>
    THEN chunks(description, text_width)
    ELSE <<description>>

\* inner = block.inner(area): the area within the borders.
inner_of(n) == IF n >= 2 THEN n - 2 ELSE 0

\* text_width = inner.width.saturating_sub(prefix_width)
prefix_width == 8
text_width_of(inner_width) ==
    IF inner_width >= prefix_width THEN inner_width - prefix_width ELSE 0

\* The loop over the rows without the two checks of y against inner.height.
RECURSIVE render_rows_unbounded(_, _, _, _)
render_rows_unbounded(line_counts, visible_idx, y, inner_height) ==
    IF visible_idx >= Len(line_counts) THEN <<>>
    ELSE <<line_counts[visible_idx + 1]>> \o
         render_rows_unbounded(line_counts, visible_idx + 1,
                               y + line_counts[visible_idx + 1], inner_height)

\* The loop over the rows from visible_idx on, the next free terminal line
\* being y: for each row the number of its lines that are drawn.
RECURSIVE render_rows(_, _, _, _)
render_rows(line_counts, visible_idx, y, inner_height) ==
    IF visible_idx >= Len(line_counts) THEN <<>>
    ELSE LET room == IF y >= inner_height THEN 0 ELSE inner_height - y
             drawn == IF line_counts[visible_idx + 1] <= room
                      THEN line_counts[visible_idx + 1] ELSE room
         IN <<drawn>> \o
            render_rows(line_counts, visible_idx + 1, y + drawn, inner_height)

\* BacklogList::render of the visible items into an area of the given inner
\* size: for each visible row the number of its lines that are drawn (none
\* for the rows skipped by scroll_offset, none at all in an area too small).
render(self, inner_width, inner_height) ==
    LET visible == visible_indices(self)
        text_width == text_width_of(inner_width)
        line_counts ==
            [p \in 1..Len(visible) |->
                Len(wrap_lines(self.backlog[visible[p] + 1].description,
                               text_width))]
        skipped == IF self.scroll_offset <= Len(visible)
                   THEN self.scroll_offset ELSE Len(visible)
    IN IF inner_width < 10 \/ inner_height < 1
       THEN [p \in 1..Len(visible) |-> 0]
       ELSE [p \in 1..skipped |-> 0]
            \o render_rows(line_counts, skipped, 0, inner_height)

\* The number of characters of a row number as format!("{}") writes it.
RECURSIVE digits(_)
digits(n) == IF n < 10 THEN 1 ELSE 1 + digits(n \div 10)

\* prefix = format!("{}. {} ", display_num, checkbox): its length in
\* characters, the checkbox being "[x]" or "[ ]".
prefix_len(display_num) == digits(display_num) + 2 + 3 + 1

\* A numbering by the item's index in the store under either setting.
display_num_original(renumber, visible_idx, original_idx) == original_idx + 1

\* display_num: the row's number, by position when renumber is set and by
\* the item's index in the store otherwise.
display_num_of(renumber, visible_idx, original_idx) ==
    IF renumber THEN visible_idx + 1 ELSE original_idx + 1

\* The columns (relative to inner.x) of the cells one emitted line sets, each
\* with the row's style: the prefix or the indent, the text, the fill.
painted_cols(line_idx, display_num, text, inner_width) ==
    LET prefix_cols ==
            IF line_idx = 0
            THEN {j \in 0..(prefix_len(display_num) - 1) : j < prefix_width}
            ELSE 0..(prefix_width - 1)
        text_cols ==
            {prefix_width + j : j \in {i \in 0..(Len(text) - 1) :
                                          prefix_width + i < inner_width}}
        text_end == prefix_width + Len(text)
        fill_cols == text_end..(inner_width - 1)
    IN prefix_cols \cup text_cols \cup fill_cols

\* The sum of the first n entries of a sequence of numbers.
RECURSIVE sum_upto(_, _)
sum_upto(counts, n) == IF n = 0 THEN 0 ELSE counts[n] + sum_upto(counts, n - 1)

\* BacklogList::render as run_tui calls it (the visible items with their
\* store indices, renumber = hide_completed): the terminal lines it emits,
\* each with its line y below inner.y, the row and the line of the row it
\* shows, the number of the row, and the columns of the cells it sets.
render_lines(self, inner_width, inner_height) ==
    LET visible == visible_indices(self)
        rows == render(self, inner_width, inner_height)
        text_width == text_width_of(inner_width)
    IN {LET item == self.backlog[visible[p] + 1]
            display_num ==
                display_num_of(self.hide_completed, p - 1, visible[p])
            text == wrap_lines(item.description, text_width)[l + 1]
        IN [y |-> sum_upto(rows, p - 1) + l,
            visible_idx |-> p - 1,
            line_idx |-> l,
            display_num |-> display_num,
            highlighted |-> (p - 1 = self.selected),
            cols |-> painted_cols(l, display_num, text, inner_width)] :
        <<p, l>> \in {<<p, l>> \in (1..Len(rows)) \X (0..inner_height) :
                          l < rows[p]}}

\* ----------------------------------------------------------------- inputs
\* All sequences over S of length at most n.
SeqsUpTo(S, n) == UNION {[1..k -> S] : k \in 0..n}

\* The characters typed into the input box, and the descriptions and
\* stores the backlog file holds when the session starts.
TypeChars == {ch_d, ch_eacute}
InitDescs == {<<ch_d>>, <<ch_eacute>>}
InitItems == {BacklogItem(d, 0, done) : d \in InitDescs, done \in BOOLEAN}
InitStores == SeqsUpTo(InitItems, MaxItems)

\* Utc::now() during the session; the loaded items are older (created_at 0).
utc_now == 1

SpecialCodes ==
    {"Esc", "Enter", "Up", "Down", "Left", "Right", "Delete", "Backspace", "Tab"}
BoundChars ==
    {ch_q, ch_J, ch_K, ch_j, ch_k, ch_x, ch_e, ch_a, ch_h, ch_d, ch_y, ch_n, ch_z}

\* The key presses offered in Normal and ConfirmDelete mode.
CommandKeys ==
    {Char(c) : c \in BoundChars} \cup {ShiftChar(ch_J), ShiftChar(ch_K)}
    \cup {Special(code) : code \in SpecialCodes}
    \cup {ShiftSpecial("Up"), ShiftSpecial("Down")}

\* The key presses offered in Edit and Add mode: the typed characters stop
\* at MaxLen code points and an Add is committed only below MaxItems.
EditKeys(self) ==
    {Special(code) : code \in SpecialCodes \ {"Enter"}}
    \cup {Char(c) : c \in IF Len(self.edit_buffer) < MaxLen THEN TypeChars ELSE {}}
    \cup (IF self.mode = "Add" /\ self.edit_buffer # <<>>
             /\ Len(self.backlog) >= MaxItems
          THEN {} ELSE {Special("Enter")})

\* load_backlog of a well-formed file.
load_backlog(file) == file

\* io::Result<Option<String>> of run_tui
NoReturn == [kind |-> "none", value |-> NoOutput]
Ok(output) == [kind |-> "Ok", value |-> output]
Err == [kind |-> "Err", value |-> NoOutput]

\* ------------------------------------------------------------------ state
VARIABLES
    app,            \* the App (before App::new: the loaded backlog in a new App)
    pc,             \* where run_tui is
    raw_mode,       \* the terminal is in raw mode
    alt_screen,     \* the terminal shows the alternate screen
    ret,            \* what run_tui returned
    save_failures   \* how many saves have failed so far

vars == <<app, pc, raw_mode, alt_screen, ret, save_failures>>

Init ==
    /\ \E file \in InitStores : app = App_new(load_backlog(file), file)
    /\ pc = "start"
    /\ raw_mode = FALSE
    /\ alt_screen = FALSE
    /\ ret = NoReturn
    /\ save_failures = 0

\* An error return of run_tui through the ? operator.
ReturnErr ==
    /\ pc' = "returned"
    /\ ret' = Err

\* if backlog.items.is_empty() { return Ok(None); }
EmptyReturn ==
    /\ pc = "start"
    /\ app.backlog = <<>>
    /\ pc' = "returned"
    /\ ret' = Ok(NoOutput)
    /\ UNCHANGED <<app, raw_mode, alt_screen, save_failures>>

EnableRawMode ==
    /\ pc = "start"
    /\ app.backlog # <<>>
    /\ raw_mode' = TRUE
    /\ pc' = "enter_alt"
    /\ UNCHANGED <<app, alt_screen, ret, save_failures>>

EnableRawModeFail ==
    /\ pc = "start"
    /\ app.backlog # <<>>
    /\ ReturnErr
    /\ UNCHANGED <<app, raw_mode, alt_screen, save_failures>>

EnterAlternateScreen ==
    /\ pc = "enter_alt"
    /\ alt_screen' = TRUE
    /\ pc' = "new_terminal"
    /\ UNCHANGED <<app, raw_mode, ret, save_failures>>

EnterAlternateScreenFail ==
    /\ pc = "enter_alt"
    /\ ReturnErr
    /\ UNCHANGED <<app, raw_mode, alt_screen, save_failures>>

NewTerminal ==
    /\ pc = "new_terminal"
    /\ pc' = "frame"
    /\ UNCHANGED <<app, raw_mode, alt_screen, ret, save_failures>>

NewTerminalFail ==
    /\ pc = "new_terminal"
    /\ ReturnErr
    /\ UNCHANGED <<app, raw_mode, alt_screen, save_failures>>

\* One pass from the top of the loop to event::read(): the size, the
\* layout, the scroll adjustment and the draw.
Frame ==
    /\ pc = "frame"
    /\ \E chunk_height \in ChunkHeights :
           app' = adjust_scroll(app, list_height_of(chunk_height))
    /\ pc' = "read"
    /\ UNCHANGED <<raw_mode, alt_screen, ret, save_failures>>

\* terminal.size()? or terminal.draw(..)? fails.
FrameFail ==
    /\ pc = "frame"
    /\ ReturnErr
    /\ UNCHANGED <<app, raw_mode, alt_screen, save_failures>>

\* event::read()? fails.
ReadFail ==
    /\ pc = "read"
    /\ ReturnErr
    /\ UNCHANGED <<app, raw_mode, alt_screen, save_failures>>

\* An event that is no key, or a key event that is no press.
IgnoredEvent ==
    /\ pc = "read"
    /\ pc' = "frame"
    /\ UNCHANGED <<app, raw_mode, alt_screen, ret, save_failures>>

\* Where the loop goes after a key handler.
after_key(ctl) ==
    IF ctl = "continue" THEN "frame"
    ELSE IF ctl = "break" THEN "disable_raw"
    ELSE "panicked"

\* let _ = self.save(): the handler drops the result of its save.
drop_result(self) == [self EXCEPT !.save_result = "none"]

\* The outcomes a save can have: it fails at most MaxSaveFailures times.
SaveOutcomes == IF save_failures < MaxSaveFailures THEN BOOLEAN ELSE {TRUE}

\* The pressed key k is read and handled; oks are the outcomes a save can
\* have.
PressKey(k, oks) ==
    /\ pc = "read"
    /\ \E ok \in oks :
           LET handled == handle_key(app, k, ok, utc_now)
           IN /\ app' = drop_result(handled.app)
              /\ pc' = after_key(handled.ctl)
              /\ save_failures' =
                     IF handled.app.save_result = "err"
                     THEN save_failures + 1 ELSE save_failures
    /\ UNCHANGED <<raw_mode, alt_screen, ret>>

NormalKey(keys, oks) ==
    /\ app.mode = "Normal"
    /\ \E k \in keys : PressKey(k, oks)

ConfirmDeleteKey(keys, oks) ==
    /\ app.mode = "ConfirmDelete"
    /\ \E k \in keys : PressKey(k, oks)

EditKey(oks) ==
    /\ app.mode \in {"Edit", "Add"}
    /\ \E k \in EditKeys(app) : PressKey(k, oks)

DisableRawMode ==
    /\ pc = "disable_raw"
    /\ raw_mode' = FALSE
    /\ pc' = "leave_alt"
    /\ UNCHANGED <<app, alt_screen, ret, save_failures>>

DisableRawModeFail ==
    /\ pc = "disable_raw"
    /\ ReturnErr
    /\ UNCHANGED <<app, raw_mode, alt_screen, save_failures>>

LeaveAlternateScreen ==
    /\ pc = "leave_alt"
    /\ alt_screen' = FALSE
    /\ pc' = "returned"
    /\ ret' = Ok(app.output)
    /\ UNCHANGED <<app, raw_mode, save_failures>>

LeaveAlternateScreenFail ==
    /\ pc = "leave_alt"
    /\ ReturnErr
    /\ UNCHANGED <<app, raw_mode, alt_screen, save_failures>>

Next ==
    \/ EmptyReturn
    \/ EnableRawMode
    \/ EnableRawModeFail
    \/ EnterAlternateScreen
    \/ EnterAlternateScreenFail
    \/ NewTerminal
    \/ NewTerminalFail
    \/ Frame
    \/ FrameFail
    \/ ReadFail
    \/ IgnoredEvent
    \/ NormalKey(CommandKeys, SaveOutcomes)
    \/ ConfirmDeleteKey(CommandKeys, SaveOutcomes)
    \/ EditKey(SaveOutcomes)
    \/ DisableRawMode
    \/ DisableRawModeFail
    \/ LeaveAlternateScreen
    \/ LeaveAlternateScreenFail

Spec == Init /\ [][Next]_vars

\* The session where every save succeeds.
NextSaveOk ==
    \/ EmptyReturn
    \/ EnableRawMode
    \/ EnableRawModeFail
    \/ EnterAlternateScreen
    \/ EnterAlternateScreenFail
    \/ NewTerminal
    \/ NewTerminalFail
    \/ Frame
    \/ FrameFail
    \/ ReadFail
    \/ IgnoredEvent
    \/ NormalKey(CommandKeys, {TRUE})
    \/ ConfirmDeleteKey(CommandKeys, {TRUE})
    \/ EditKey({TRUE})
    \/ DisableRawMode
    \/ DisableRawModeFail
    \/ LeaveAlternateScreen
    \/ LeaveAlternateScreenFail

SpecSaveOk == Init /\ [][NextSaveOk]_vars

\* The browsing session: longer stores (up to MaxBrowseItems items), every
\* key of Normal and ConfirmDelete mode but the two that open the input box,
\* saves that succeed.
BrowseKeys == CommandKeys \ {Char(ch_a), Char(ch_e)}

InitBrowse ==
    /\ \E file \in SeqsUpTo(InitItems, MaxBrowseItems) :
           app = App_new(load_backlog(file), file)
    /\ pc = "start"
    /\ raw_mode = FALSE
    /\ alt_screen = FALSE
    /\ ret = NoReturn
    /\ save_failures = 0

NextBrowse ==
    \/ EmptyReturn
    \/ EnableRawMode
    \/ EnableRawModeFail
    \/ EnterAlternateScreen
    \/ EnterAlternateScreenFail
    \/ NewTerminal
    \/ NewTerminalFail
    \/ Frame
    \/ FrameFail
    \/ ReadFail
    \/ IgnoredEvent
    \/ NormalKey(BrowseKeys, {TRUE})
    \/ ConfirmDeleteKey(BrowseKeys, {TRUE})
    \/ DisableRawMode
    \/ DisableRawModeFail
    \/ LeaveAlternateScreen
    \/ LeaveAlternateScreenFail

SpecBrowse == InitBrowse /\ [][NextBrowse]_vars

\* The viewing session: stores of up to MaxViewItems items whose
\* descriptions take one line or several, terminals of several sizes, the
\* keys of Normal mode that neither type nor delete, saves that succeed.
long_desc == [p \in 1..MaxViewLen |-> IF p % 2 = 1 THEN ch_d ELSE ch_eacute]
ViewDescs == {<<>>, <<ch_d, ch_eacute>>, <<ch_eacute, ch_d, ch_d>>, long_desc}
ViewItems == {BacklogItem(d, 0, done) : d \in ViewDescs, done \in BOOLEAN}
ViewWidths == {11, 12, 13, 15}
ViewChunkHeights == {3, 4, 6}
ViewKeys ==
    {Char(c) : c \in {ch_q, ch_j, ch_k, ch_x, ch_h, ch_z}}
    \cup {Special("Enter"), Special("Up"), Special("Down")}

InitView ==
    /\ \E file \in SeqsUpTo(ViewItems, MaxViewItems) :
           app = App_new(load_backlog(file), file)
    /\ pc = "start"
    /\ raw_mode = FALSE
    /\ alt_screen = FALSE
    /\ ret = NoReturn
    /\ save_failures = 0

\* One pass from the top of the loop to event::read() on one of the
\* terminals of the viewing session; the draw changes no state.
ViewFrame ==
    /\ pc = "frame"
    /\ \E chunk_height \in ViewChunkHeights :
           app' = adjust_scroll(app, list_height_of(chunk_height))
    /\ pc' = "read"
    /\ UNCHANGED <<raw_mode, alt_screen, ret, save_failures>>

NextView ==
    \/ EmptyReturn
    \/ EnableRawMode
    \/ EnableRawModeFail
    \/ EnterAlternateScreen
    \/ EnterAlternateScreenFail
    \/ NewTerminal
    \/ NewTerminalFail
    \/ ViewFrame
    \/ FrameFail
    \/ ReadFail
    \/ IgnoredEvent
    \/ NormalKey(ViewKeys, {TRUE})
    \/ DisableRawMode
    \/ DisableRawModeFail
    \/ LeaveAlternateScreen
    \/ LeaveAlternateScreenFail

SpecView == InitView /\ [][NextView]_vars

\* ----------------------------------------------------- properties: helpers
\* The session is in its loop, waiting for the next key.
WaitingForKey == pc = "read"

\* The keys that can be pressed in the current state.
KeysOffered(self) ==
    IF self.mode \in {"Edit", "Add"} THEN EditKeys(self) ELSE CommandKeys

VisibleCount(self) == Len(visible_indices(self))

\* The in-memory part of the App the claims speak of.
Memory(self) ==
    [backlog |-> self.backlog, selected |-> self.selected, mode |-> self.mode,
     pending_d |-> self.pending_d, hide_completed |-> self.hide_completed,
     edit_buffer |-> self.edit_buffer, edit_cursor |-> self.edit_cursor,
     output |-> self.output, scroll_offset |-> self.scroll_offset]

\* ----------------------------------------------------------------- claims
\* C1: in every reachable state 0 <= selected < max(1, number of visible
\* items); in particular selected = 0 when the visible set is empty.
C1_SelectedInRange ==
    LET n == VisibleCount(app)
    IN /\ 0 <= app.selected
       /\ app.selected < (IF n > 1 THEN n ELSE 1)
       /\ (n = 0 => app.selected = 0)

\* C1 witness: the last of two rows was selected and deleted (the save
\* failed, so the file still shows both), and selected came back to row 0.
C1_Witness ==
    /\ WaitingForKey
    /\ Len(app.file) = 2
    /\ app.file[1] # app.file[2]
    /\ app.backlog = <<app.file[1]>>
    /\ ~app.hide_completed
    /\ app.selected = 0

\* C2: edit_cursor is a code-point offset inside edit_buffer, so that the
\* insertion and the backspace of Add/Edit mode never index outside it.
C2_EditCursorInBuffer ==
    /\ 0 <= app.edit_cursor
    /\ app.edit_cursor <= chars_count(app.edit_buffer)
    /\ pc # "panicked"

\* C3: whenever run_tui has returned, the terminal is out of raw mode and
\* out of the alternate screen.
C3_TerminalRestoredOnReturn ==
    pc = "returned" => (~raw_mode /\ ~alt_screen)

\* What one key press does to the session's end and output: only Enter, 'q'
\* and Escape pressed in Normal mode end it, Enter leaves the description of
\* the item at visible position selected as the output, every other key
\* leaves none.
C4_KeysThatEnd ==
    WaitingForKey =>
        \A k \in KeysOffered(app), ok \in BOOLEAN :
            LET handled == handle_key(app, k, ok, utc_now)
                actual_idx == visible_to_actual(app, app.selected)
                ends == IsChar(k, ch_q) \/ k.code = "Esc" \/ k.code = "Enter"
            IN /\ handled.ctl # "continue" =>
                      (app.mode = "Normal" /\ ends /\ handled.ctl = "break")
               /\ (app.mode = "Normal" /\ ends) => handled.ctl = "break"
               /\ (app.mode = "Normal" /\ k.code = "Enter" /\ actual_idx # None) =>
                      handled.app.output =
                          SomeOutput(app.backlog[actual_idx + 1].description)
               /\ ~(app.mode = "Normal" /\ k.code = "Enter") =>
                      handled.app.output = NoOutput

\* With an empty loaded list run_tui returns nothing at once, touching
\* neither the terminal nor the App nor the file.
C4_EmptyShortCircuit ==
    (pc = "start" /\ app.backlog = <<>>) =>
        /\ pc' = "returned"
        /\ ret' = Ok(NoOutput)
        /\ UNCHANGED <<app, raw_mode, alt_screen, save_failures>>

\* C4: the session ends only by Enter, 'q' or Escape pressed in Normal
\* mode; Enter leaves the description of the item at visible position
\* selected as the output, 'q' and Escape leave none, and no other key in no
\* other mode sets the output or ends the session; run_tui returns that
\* output; and with an empty loaded list run_tui returns nothing without
\* starting the key loop.
C4_SessionResult ==
    /\ [](C4_KeysThatEnd)
    /\ []((pc = "returned" /\ ret.kind = "Ok") => ret.value = app.output)
    /\ [][C4_EmptyShortCircuit]_vars

\* C5: when every save succeeds, the persisted store equals the in-memory
\* store whenever the session is about to draw or is waiting for a key.
C5_PersistedEqualsMemory ==
    pc \in {"frame", "read"} => app.file = app.backlog

\* C5 witness: an item added in this session is in the store and on disk.
C5_Witness ==
    /\ WaitingForKey
    /\ app.file = app.backlog
    /\ \E i \in 1..Len(app.backlog) :
           /\ app.backlog[i].created_at = utc_now
           /\ app.backlog[i].done

\* C6: a save that fails does not end the session and leaves the App in
\* memory exactly as the successful save would; a save that succeeds writes
\* the whole in-memory store, also after an earlier failure.
C6_SaveFailureSwallowed ==
    WaitingForKey =>
        \A k \in KeysOffered(app) :
            LET good == handle_key(app, k, TRUE, utc_now)
                bad == handle_key(app, k, FALSE, utc_now)
            IN /\ (good.app.save_result = "none") = (bad.app.save_result = "none")
               /\ bad.app.save_result = "err" =>
                      /\ bad.ctl = "continue"
                      /\ Memory(bad.app) = Memory(good.app)
                      /\ bad.app.file = app.file
               /\ good.app.save_result = "ok" =>
                      good.app.file = good.app.backlog

\* C6 witness: a save has failed, the session goes on with a store the
\* file does not hold, and a key that saves is available.
C6_Witness ==
    /\ WaitingForKey
    /\ save_failures = 1
    /\ app.file # app.backlog
    /\ app.mode = "Normal"
    /\ app.hide_completed
    /\ VisibleCount(app) > 0

\* n presses of 'd' in a row, in Normal mode.
RECURSIVE press_d(_, _, _)
press_d(self, n, ok) ==
    IF n = 0 THEN self
    ELSE press_d(handle_key(self, Char(ch_d), ok, utc_now).app, n - 1, ok)

Min(x, y) == IF x <= y THEN x ELSE y

\* The parts of C7 that the code and the claim agree on: a first 'd' only
\* arms the flag; a 'd' with the flag armed deletes the item of the selected
\* row and disarms; nothing but a first 'd' in Normal mode arms the flag.
C7_Common(self, k, ok) ==
    LET handled == handle_key(self, k, ok, utc_now)
        is_d == self.mode = "Normal" /\ IsChar(k, ch_d)
        actual_idx == visible_to_actual(self, self.selected)
    IN /\ (is_d /\ ~self.pending_d) =>
              handled = Handled([self EXCEPT !.pending_d = TRUE], "continue")
       /\ (is_d /\ self.pending_d) =>
              /\ handled.ctl = "continue"
              /\ ~handled.app.pending_d
              /\ handled.app.backlog =
                     IF actual_idx = None THEN self.backlog
                     ELSE vec_remove(self.backlog, actual_idx)
       /\ (handled.app.pending_d /\ handled.ctl = "continue") =>
              (is_d /\ ~self.pending_d)

\* C7 (as amended): double-tap delete. In Normal mode a first 'd' only arms
\* the flag, a 'd' with the flag armed deletes the item of the selected row
\* (if there is one) and disarms, every other key after which the session
\* goes on leaves the flag disarmed, and n presses of 'd' in a row delete
\* min(floor(n / 2), number of visible items) items.
C7_DoubleTapDelete ==
    WaitingForKey =>
        /\ \A k \in KeysOffered(app), ok \in BOOLEAN :
               LET handled == handle_key(app, k, ok, utc_now)
               IN /\ C7_Common(app, k, ok)
                  /\ (app.mode = "Normal" /\ ~IsChar(k, ch_d)
                          /\ handled.ctl = "continue") => ~handled.app.pending_d
        /\ (app.mode = "Normal" /\ ~app.pending_d) =>
               \A n \in 0..(2 * Len(app.backlog) + 3), ok \in BOOLEAN :
                   Len(press_d(app, n, ok).backlog) =
                       Len(app.backlog) - Min(n \div 2, VisibleCount(app))

\* C7 witness: the flag is armed over a store of three items of which one
\* is visible, so that the next 'd' deletes through the filter and further
\* presses find nothing to delete.
C7_Witness ==
    /\ WaitingForKey
    /\ app.mode = "Normal"
    /\ app.pending_d
    /\ app.hide_completed
    /\ VisibleCount(app) = 1
    /\ Len(app.backlog) = 3
    /\ app.backlog[1].done

\* C7 as first stated: every key other than 'd' pressed in Normal mode
\* leaves the flag disarmed, and n presses of 'd' in a row delete
\* floor(n / 2) items.
C7_AsStated ==
    WaitingForKey =>
        /\ \A k \in KeysOffered(app), ok \in BOOLEAN :
               LET handled == handle_key(app, k, ok, utc_now)
               IN /\ C7_Common(app, k, ok)
                  /\ (app.mode = "Normal" /\ ~IsChar(k, ch_d)) =>
                         ~handled.app.pending_d
        /\ (app.mode = "Normal" /\ ~app.pending_d) =>
               \A n \in 0..(2 * Len(app.backlog) + 3), ok \in BOOLEAN :
                   Len(press_d(app, n, ok).backlog) = Len(app.backlog) - (n \div 2)

\* The fields C8 compares after a two-key sequence.
DeleteOutcome(self) ==
    [backlog |-> self.backlog, selected |-> self.selected, mode |-> self.mode,
     pending_d |-> self.pending_d, file |-> self.file]

\* Two keys pressed one after the other (the frame drawn in between reads
\* and writes none of the fields of DeleteOutcome).
press2(self, k1, k2, ok) ==
    handle_key(handle_key(self, k1, ok, utc_now).app, k2, ok, utc_now)

\* C8: from a Normal-mode state with the flag disarmed, 'd' 'd' and
\* Delete (or Backspace) 'y' end in the same store, selected, mode (Normal),
\* flag (disarmed) and persisted store.
C8_DeletePathsAgree ==
    (WaitingForKey /\ app.mode = "Normal" /\ ~app.pending_d) =>
        \A ok \in BOOLEAN, del \in {"Delete", "Backspace"} :
            LET dd == press2(app, Char(ch_d), Char(ch_d), ok)
                dy == press2(app, Special(del), Char(ch_y), ok)
            IN /\ dd.ctl = "continue" /\ dy.ctl = "continue"
               /\ DeleteOutcome(dd.app) = DeleteOutcome(dy.app)
               /\ dd.app.mode = "Normal" /\ ~dd.app.pending_d

\* C8 witness: the selected row is the last visible one and a hidden item
\* stands before it, so both paths delete through the filter and re-clamp.
C8_Witness ==
    /\ WaitingForKey /\ app.mode = "Normal" /\ ~app.pending_d
    /\ app.hide_completed
    /\ Len(app.backlog) = 3
    /\ app.backlog[1].done /\ ~app.backlog[2].done /\ ~app.backlog[3].done
    /\ app.selected = 1
    /\ LET dy == press2(app, Special("Delete"), Char(ch_y), TRUE)
       IN /\ dy.app.backlog = <<app.backlog[1], app.backlog[2]>>
          /\ dy.app.selected = 0
          /\ dy.app.file = dy.app.backlog

\* C9: Enter in Add mode with a non-empty buffer appends one item (the
\* buffer, not done) after the unchanged items, selects its visible row (the
\* last one), saves and returns to Normal; with an empty buffer it only
\* returns to Normal, without a save.
C9_AddCommit ==
    (WaitingForKey /\ app.mode = "Add") =>
        \A ok \in BOOLEAN :
            LET handled == handle_key(app, Special("Enter"), ok, utc_now)
                after == handled.app
                n == Len(app.backlog)
            IN /\ handled.ctl = "continue"
               /\ after.mode = "Normal"
               /\ app.edit_buffer # <<>> =>
                      /\ Len(after.backlog) = n + 1
                      /\ SubSeq(after.backlog, 1, n) = app.backlog
                      /\ after.backlog[n + 1].description = app.edit_buffer
                      /\ after.backlog[n + 1].done = FALSE
                      /\ visible_to_actual(after, after.selected) = n
                      /\ after.selected = VisibleCount(after) - 1
                      /\ after.save_result # "none"
                      /\ ok => after.file = after.backlog
                      /\ ~ok => after.file = app.file
               /\ app.edit_buffer = <<>> =>
                      after = [app EXCEPT !.mode = "Normal"]

\* C9 witness: Enter in Add mode has just appended the typed buffer as the
\* last item, saved it and selected its row while a completed item is hidden.
C9_Witness ==
    /\ pc = "frame"
    /\ app.mode = "Normal"
    /\ app.hide_completed
    /\ Len(app.backlog) = 2
    /\ app.backlog[1].done
    /\ app.backlog[2] = BacklogItem(app.edit_buffer, utc_now, FALSE)
    /\ app.edit_buffer # <<>>
    /\ app.selected = 0
    /\ app.file = app.backlog

\* The store after positions i and j (0-based) are exchanged, written out.
Exchanged(items, i, j) ==
    [p \in 1..Len(items) |->
        IF p = i + 1 THEN items[j + 1]
        ELSE IF p = j + 1 THEN items[i + 1]
        ELSE items[p]]

\* What C10 says of one move key: dir is 1 for down and -1 for up.
C10_Move(self, k, dir, ok) ==
    LET handled == handle_key(self, k, ok, utc_now)
        after == handled.app
        a == visible_to_actual(self, self.selected)
        at_edge == IF dir = 1 THEN a = Len(self.backlog) - 1 ELSE a = 0
    IN /\ handled.ctl = "continue"
       /\ (a = None \/ at_edge) =>
              /\ after.backlog = self.backlog
              /\ after.selected = self.selected
              /\ after.file = self.file
              /\ after.save_result = "none"
       /\ (a # None /\ ~at_edge) =>
              /\ after.backlog = Exchanged(self.backlog, a, a + dir)
              /\ visible_to_actual(after, after.selected) = a + dir
              /\ after.save_result # "none"
              /\ ok => after.file = after.backlog

\* C10: move_item_down and move_item_up act on the selected item's actual
\* index: a no-op at the store's edge or with nothing selected, otherwise
\* exactly the two neighbouring store positions are exchanged and selected
\* follows the moved item, also past a hidden neighbour.
C10_MoveIsTransposition ==
    (WaitingForKey /\ app.mode = "Normal") =>
        \A ok \in BOOLEAN :
            /\ C10_Move(app, ShiftChar(ch_J), 1, ok)
            /\ C10_Move(app, ShiftSpecial("Down"), 1, ok)
            /\ C10_Move(app, ShiftChar(ch_K), 0 - 1, ok)
            /\ C10_Move(app, ShiftSpecial("Up"), 0 - 1, ok)

\* C10 witness: in a store of three different items the selected one is
\* moved down past a hidden (completed) neighbour, the third stays where it
\* was, and the moved item is still the selected row.
C10_Witness ==
    /\ WaitingForKey
    /\ app.mode = "Normal"
    /\ app.hide_completed
    /\ Len(app.backlog) = 3
    /\ ~app.backlog[1].done /\ app.backlog[2].done /\ ~app.backlog[3].done
    /\ app.backlog[1] # app.backlog[3]
    /\ app.selected = 0
    /\ LET after == handle_key(app, ShiftChar(ch_J), TRUE, utc_now).app
       IN /\ after.backlog = <<app.backlog[2], app.backlog[1], app.backlog[3]>>
          /\ after.selected = 0
          /\ visible_to_actual(after, after.selected) = 1

\* The frame drawn for the App on a terminal whose list chunk is width wide
\* and chunk_height high: the App after the scroll adjustment and the lines
\* drawn of each visible row.
frame_of(self, width, chunk_height) ==
    LET adjusted == adjust_scroll(self, list_height_of(chunk_height))
    IN [app |-> adjusted,
        rows |-> render(adjusted, inner_of(width), inner_of(chunk_height))]

\* C11: in every frame with a non-empty visible set and a list viewport of
\* inner width >= 10 and inner height >= 1, at least the first line of the
\* selected row is drawn, whatever the descriptions and the viewport height.
C11_SelectedRowDrawn ==
    pc = "frame" =>
        \A width \in ViewWidths, chunk_height \in ViewChunkHeights :
            (/\ VisibleCount(app) > 0
             /\ inner_of(width) >= 10
             /\ inner_of(chunk_height) >= 1) =>
                LET frame == frame_of(app, width, chunk_height)
                IN frame.rows[frame.app.selected + 1] >= 1

\* The keys of Edit and Add mode, with no bound on what has been typed.
AllEditKeys ==
    {Special(code) : code \in SpecialCodes} \cup {Char(c) : c \in TypeChars}

\* The keys of a sequence pressed one after the other, up to the first one
\* that ends the session.
RECURSIVE press_all(_, _, _)
press_all(self, keys, ok) ==
    IF keys = <<>> THEN Handled(self, "continue")
    ELSE LET handled == handle_key(self, Head(keys), ok, utc_now)
         IN IF handled.ctl # "continue" THEN handled
            ELSE press_all(handled.app, Tail(keys), ok)

\* Every item of store t stands at the index it has in store s, whatever
\* became of the fields named in changed.
SameIndices(s, t, changed) ==
    /\ Len(t) = Len(s)
    /\ \A i \in 1..Len(s) :
           /\ "description" \in changed \/ t[i].description = s[i].description
           /\ "done" \in changed \/ t[i].done = s[i].done
           /\ t[i].created_at = s[i].created_at

IsMoveKey(k) ==
    k.shift /\ (IsChar(k, ch_J) \/ IsChar(k, ch_K) \/ k.code \in {"Up", "Down"})

\* What C12 says of one key pressed in Normal or ConfirmDelete mode.
C12_CommandKey(self, k, ok) ==
    LET after == handle_key(self, k, ok, utc_now).app.backlog
        actual_idx == visible_to_actual(self, self.selected)
        deletes == \/ self.mode = "Normal" /\ IsChar(k, ch_d) /\ self.pending_d
                   \/ self.mode = "ConfirmDelete" /\ IsChar(k, ch_y)
    IN IF self.mode = "Normal" /\ IsMoveKey(k) THEN TRUE
       ELSE IF deletes
           THEN after = IF actual_idx = None THEN self.backlog
                        ELSE vec_remove(self.backlog, actual_idx)
       ELSE IF self.mode = "Normal" /\ IsChar(k, ch_x)
           THEN SameIndices(self.backlog, after, {"done"})
       ELSE after = self.backlog

\* What C12 says of the input box: opened with key open ('e' or 'a'), one
\* key typed or none, then the key last.
C12_InputBox(self, open, typed, last, ok) ==
    LET handled == press_all(self, <<Char(open)>> \o typed \o <<last>>, ok)
        box == press_all(self, <<Char(open)>> \o typed, ok).app
        after == handled.app.backlog
    IN IF last.code # "Enter" \/ box.mode = "Normal" THEN after = self.backlog
       ELSE IF box.mode = "Edit"
           THEN SameIndices(self.backlog, after, {"description"})
       ELSE /\ Len(after) <= Len(self.backlog) + 1
            /\ SubSeq(after, 1, Len(self.backlog)) = self.backlog

\* C12: only move_item_up and move_item_down change the order of the store.
\* Toggle-done, Edit commit, hide toggle, navigation and typing keep every
\* item at its index, Add commit appends at the end, and a delete removes
\* the item at the selected row's actual index and nothing else.
C12_OrderKept ==
    WaitingForKey =>
        \A ok \in BOOLEAN :
            /\ \A k \in CommandKeys : C12_CommandKey(app, k, ok)
            /\ app.mode = "Normal" =>
                   \A open \in {ch_e, ch_a}, last \in AllEditKeys,
                      typed \in {<<>>} \cup {<<k>> : k \in AllEditKeys} :
                       C12_InputBox(app, open, typed, last, ok)

\* C12 witness: the middle one of three different items is selected with
\* the flag armed; 'd' removes it and leaves the other two in their order,
\* and an Add commit in the same state appends a fourth item.
C12_Witness ==
    /\ WaitingForKey /\ app.mode = "Normal" /\ app.pending_d
    /\ ~app.hide_completed
    /\ Len(app.backlog) = 3
    /\ app.backlog[1] # app.backlog[3]
    /\ app.backlog[2] # app.backlog[3]
    /\ app.selected = 1
    /\ handle_key(app, Char(ch_d), TRUE, utc_now).app.backlog =
           <<app.backlog[1], app.backlog[3]>>
    /\ press_all(app, <<Char(ch_a), Char(ch_d), Special("Enter")>>, TRUE).app.backlog =
           Append(app.backlog, BacklogItem(<<ch_d>>, utc_now, FALSE))

\* Item i (0-based) of the store passes the filter.
PassesFilter(self, i) == ~self.hide_completed \/ ~self.backlog[i + 1].done

\* C13: visible_indices is strictly increasing in actual index;
\* actual_to_visible(i) is defined exactly when item i passes the filter, and
\* then visible_to_actual(actual_to_visible(i)) = i; visible_to_actual(p) is
\* defined exactly when p < number of visible items.
C13_IndexMaps ==
    LET visible == visible_indices(app)
        n == Len(app.backlog)
    IN /\ \A p, r \in 1..Len(visible) : p < r => visible[p] < visible[r]
       /\ \A p \in 1..Len(visible) :
              visible[p] \in 0..(n - 1) /\ PassesFilter(app, visible[p])
       /\ \A i \in 0..(n + 1) :
              /\ (actual_to_visible(app, i) # None) =
                     (i < n /\ PassesFilter(app, i))
              /\ actual_to_visible(app, i) # None =>
                     visible_to_actual(app, actual_to_visible(app, i)) = i
       /\ \A p \in 0..(n + 1) :
              (visible_to_actual(app, p) # None) = (p < Len(visible))

\* C13 witness: the filter hides the first of three items and the second
\* visible row is selected, so row numbers and store indices differ.
C13_Witness ==
    /\ WaitingForKey
    /\ app.hide_completed
    /\ Len(app.backlog) = 3
    /\ app.backlog[1].done /\ ~app.backlog[2].done /\ ~app.backlog[3].done
    /\ app.selected = 1
    /\ visible_to_actual(app, app.selected) = 2
    /\ actual_to_visible(app, 0) = None

\* C14: the hide-toggle key pressed twice in a row in Normal mode restores
\* hide_completed and the visible set and leaves the store and the persisted
\* store as they were (selected need not come back).
C14_HideTwice ==
    (WaitingForKey /\ app.mode = "Normal") =>
        \A ok \in BOOLEAN :
            LET handled == press_all(app, <<Char(ch_h), Char(ch_h)>>, ok)
                after == handled.app
            IN /\ handled.ctl = "continue"
               /\ after.hide_completed = app.hide_completed
               /\ visible_indices(after) = visible_indices(app)
               /\ after.backlog = app.backlog
               /\ after.file = app.file
               /\ after.save_result = "none"

\* C14 witness: the last of three rows is selected and an item is done, so
\* the two toggles bring the visible set back but not selected.
C14_Witness ==
    /\ WaitingForKey /\ app.mode = "Normal"
    /\ ~app.hide_completed
    /\ Len(app.backlog) = 3
    /\ app.backlog[1].done
    /\ app.selected = 2
    /\ LET after == press_all(app, <<Char(ch_h), Char(ch_h)>>, TRUE).app
       IN after.selected < 2 /\ visible_indices(after) = <<0, 1, 2>>

\* C15: one hide-completed toggle keeps the selection index, clamped:
\* selected = min(old selected, max(0, new visible count - 1)); the store is
\* unchanged and no save is made.
C15_HideOnce ==
    (WaitingForKey /\ app.mode = "Normal") =>
        \A ok \in BOOLEAN :
            LET handled == handle_key(app, Char(ch_h), ok, utc_now)
                after == handled.app
                n == VisibleCount(after)
            IN /\ handled.ctl = "continue"
               /\ after.hide_completed = ~app.hide_completed
               /\ after.selected =
                      Min(app.selected, IF n >= 1 THEN n - 1 ELSE 0)
               /\ after.backlog = app.backlog
               /\ after.file = app.file
               /\ after.save_result = "none"

\* C15 witness: row 0 is selected and holds a completed item; after the
\* toggle row 0 is still selected and holds the next item of the store.
C15_Witness ==
    /\ WaitingForKey /\ app.mode = "Normal"
    /\ ~app.hide_completed
    /\ Len(app.backlog) = 3
    /\ app.backlog[1].done /\ ~app.backlog[2].done
    /\ app.backlog[1].description # app.backlog[2].description
    /\ app.selected = 0
    /\ LET after == handle_key(app, Char(ch_h), TRUE, utc_now).app
       IN /\ after.selected = 0
          /\ visible_to_actual(after, after.selected) = 1

\* C16: the toggle-done key in Normal mode flips done of exactly the item at
\* the selected row's actual index and saves; with the filter off selected
\* is unchanged, with the filter on the item leaves the visible set and
\* selected = min(old selected, max(0, new visible count - 1)); with an empty
\* visible set the store, the file and selected are unchanged and no save is
\* made.
C16_ToggleDone ==
    (WaitingForKey /\ app.mode = "Normal") =>
        \A ok \in BOOLEAN :
            LET handled == handle_key(app, Char(ch_x), ok, utc_now)
                after == handled.app
                a == visible_to_actual(app, app.selected)
                n == VisibleCount(after)
            IN /\ handled.ctl = "continue"
               /\ after.hide_completed = app.hide_completed
               /\ after.mode = "Normal"
               /\ after.output = app.output
               /\ a = None =>
                      /\ after.backlog = app.backlog
                      /\ after.file = app.file
                      /\ after.selected = app.selected
                      /\ after.save_result = "none"
               /\ a # None =>
                      /\ after.backlog =
                             [app.backlog EXCEPT ![a + 1].done = ~@]
                      /\ after.save_result # "none"
                      /\ ok => after.file = after.backlog
                      /\ ~app.hide_completed => after.selected = app.selected
                      /\ app.hide_completed =>
                             /\ actual_to_visible(after, a) = None
                             /\ n = VisibleCount(app) - 1
                             /\ after.selected =
                                    Min(app.selected, IF n >= 1 THEN n - 1 ELSE 0)

\* C16 witness: under the filter the last visible row, behind a hidden
\* item, is toggled: the item at store index 2 becomes done and selected
\* falls back to the row left.
C16_Witness ==
    /\ WaitingForKey /\ app.mode = "Normal"
    /\ app.hide_completed
    /\ Len(app.backlog) = 3
    /\ app.backlog[1].done /\ ~app.backlog[2].done /\ ~app.backlog[3].done
    /\ app.selected = 1
    /\ LET after == handle_key(app, Char(ch_x), TRUE, utc_now).app
       IN /\ after.backlog[3].done /\ ~after.backlog[2].done
          /\ after.selected = 0
          /\ after.file = after.backlog

\* What a cancelling key must leave behind: Normal mode, and the store, the
\* file, selected and hide_completed as they were, without a save.
Cancelled(self, handled) ==
    /\ handled.ctl = "continue"
    /\ handled.app.mode = "Normal"
    /\ handled.app.backlog = self.backlog
    /\ handled.app.file = self.file
    /\ handled.app.selected = self.selected
    /\ handled.app.hide_completed = self.hide_completed
    /\ handled.app.save_result = "none"

\* C17: Escape in Add or Edit mode, and 'n' or Escape in ConfirmDelete mode,
\* return to Normal and leave the store, the file, selected and
\* hide_completed unchanged, whatever the buffer holds; every other key of
\* ConfirmDelete mode but 'y' leaves the whole state as it is.
C17_CancelKeepsAll ==
    WaitingForKey =>
        \A ok \in BOOLEAN :
            /\ app.mode \in {"Add", "Edit"} =>
                   Cancelled(app, handle_key(app, Special("Esc"), ok, utc_now))
            /\ app.mode = "ConfirmDelete" =>
                   \A k \in CommandKeys :
                       LET handled == handle_key(app, k, ok, utc_now)
                       IN IF IsChar(k, ch_y) THEN TRUE
                          ELSE IF IsChar(k, ch_n) \/ k.code = "Esc"
                              THEN Cancelled(app, handled)
                          ELSE handled = Handled(app, "continue")

\* C17 witness: Edit mode with a buffer that no longer is the description of
\* the selected item, ready for Escape.
C17_Witness ==
    /\ WaitingForKey
    /\ app.mode = "Edit"
    /\ visible_to_actual(app, app.selected) # None
    /\ app.edit_buffer #
           app.backlog[visible_to_actual(app, app.selected) + 1].description
    /\ handle_key(app, Special("Esc"), TRUE, utc_now).app.backlog = app.backlog

\* What C18 says of Enter pressed in an Edit mode entered on the item at
\* actual index a of store: that item takes the buffer as its description
\* and nothing else changes.
C18_Committed(self, store, a, ok) ==
    LET handled == handle_key(self, Special("Enter"), ok, utc_now)
        after == handled.app
    IN /\ handled.ctl = "continue"
       /\ a # None
       /\ after.backlog = [store EXCEPT ![a + 1].description = self.edit_buffer]
       /\ after.selected = self.selected
       /\ after.hide_completed = self.hide_completed
       /\ after.mode = "Normal"
       /\ after.save_result # "none"
       /\ ok => after.file = after.backlog

\* C18: Enter in Edit mode sets the description of exactly one item to the
\* buffer (also an empty one), the item whose description seeded the buffer
\* when Edit mode was entered; its done flag and timestamp, the other items,
\* the store length and selected are unchanged, the store is saved and the
\* mode becomes Normal.
C18_EditCommit ==
    WaitingForKey =>
        \A ok \in BOOLEAN :
            /\ app.mode = "Edit" =>
                   C18_Committed(app, app.backlog,
                                 visible_to_actual(app, app.selected), ok)
            /\ app.mode = "Normal" =>
                   \A typed \in {<<>>} \cup
                              {<<k>> : k \in AllEditKeys \ {Special("Enter"), Special("Esc")}} :
                       LET box == press_all(app, <<Char(ch_e)>> \o typed, ok)
                       IN (box.ctl = "continue" /\ box.app.mode = "Edit") =>
                              C18_Committed(box.app, app.backlog,
                                  visible_to_actual(app, app.selected), ok)

\* C18 witness: Edit mode over the only visible item, behind a hidden one,
\* with the buffer emptied.
C18_Witness ==
    /\ WaitingForKey
    /\ app.mode = "Edit"
    /\ app.edit_buffer = <<>>
    /\ app.hide_completed
    /\ Len(app.backlog) = 2
    /\ app.backlog[1].done /\ ~app.backlog[2].done
    /\ app.backlog[1].description # <<>>
    /\ app.backlog[2].description # <<>>
    /\ handle_key(app, Special("Enter"), TRUE, utc_now).app.backlog =
           <<app.backlog[1], [app.backlog[2] EXCEPT !.description = <<>>]>>

\* C19: from a Normal-mode state with a selected item the edit key leads to
\* Edit mode with edit_buffer the selected item's description and
\* edit_cursor its length in code points, the store unchanged.
C19_EnterEdit ==
    (WaitingForKey /\ app.mode = "Normal"
        /\ visible_to_actual(app, app.selected) # None) =>
        LET handled == handle_key(app, Char(ch_e), TRUE, utc_now)
            after == handled.app
            description ==
                app.backlog[visible_to_actual(app, app.selected) + 1].description
        IN /\ handled.ctl = "continue"
           /\ after.mode = "Edit"
           /\ after.edit_buffer = description
           /\ after.edit_cursor = chars_count(description)
           /\ after.backlog = app.backlog

\* The lines of a row put one after the other.
RECURSIVE concat(_)
concat(lines) ==
    IF lines = <<>> THEN <<>> ELSE Head(lines) \o concat(Tail(lines))

\* The text widths the terminals of the viewing session give.
TextWidths == {text_width_of(inner_of(width)) : width \in ViewWidths}

\* The wrapping law for one description and one text width.
C20_Law(description, text_width) ==
    LET lines == wrap_lines(description, text_width)
    IN IF description = <<>> THEN lines = << <<>> >>
       ELSE /\ Len(lines) >= 1
            /\ \A j \in 1..(Len(lines) - 1) : Len(lines[j]) = text_width
            /\ Len(lines[Len(lines)]) \in 1..text_width
            /\ concat(lines) = description

\* C20: for every text_width >= 1 a non-empty description is split into
\* chunks of exactly text_width code points, the last of 1..text_width, that
\* concatenate to the description ("abcdefghij" at width 5 gives "abcde" and
\* "fghij"); an empty description gives one empty line.
C20_Wrapping ==
    /\ \A i \in 1..Len(app.backlog), text_width \in TextWidths :
           text_width >= 1 => C20_Law(app.backlog[i].description, text_width)
    /\ wrap_lines(<<97, 98, 99, 100, 101, 102, 103, 104, 105, 106>>, 5) =
           << <<97, 98, 99, 100, 101>>, <<102, 103, 104, 105, 106>> >>

\* C20 witness: a frame is due over a store with the longest description,
\* which wraps to full lines and a shorter last one, and an empty one.
C20_Witness ==
    /\ pc = "frame"
    /\ \E i, j \in 1..Len(app.backlog) :
           /\ app.backlog[i].description = long_desc
           /\ app.backlog[j].description = <<>>
    /\ \E text_width \in TextWidths :
           LET lines == wrap_lines(long_desc, text_width)
           IN /\ Len(lines) >= 3
              /\ Len(lines[Len(lines)]) < text_width

\* The lines of the frame drawn for the App on a terminal whose list chunk
\* is width wide and chunk_height high.
frame_lines(self, width, chunk_height) ==
    render_lines(frame_of(self, width, chunk_height).app,
                 inner_of(width), inner_of(chunk_height))

\* C21: every terminal line the renderer emits for a row, first line or
\* continuation line, has every cell from column 0 to inner.width - 1
\* painted with the row's style.
C21_FullWidthStyle ==
    pc = "frame" =>
        \A width \in ViewWidths, chunk_height \in ViewChunkHeights :
            \A line \in frame_lines(app, width, chunk_height) :
                line.cols = 0..(inner_of(width) - 1)

\* Areas too small to draw in, a zero area among them.
SmallSizes == {0, 2}

\* Line a of a frame stands for an earlier row, or an earlier line of the
\* same row, than line b.
Before(a, b) ==
    \/ a.visible_idx < b.visible_idx
    \/ a.visible_idx = b.visible_idx /\ a.line_idx < b.line_idx

\* What C22 says of one call of the renderer.
C22_Rendered(self, inner_width, inner_height) ==
    LET lines == render_lines(self, inner_width, inner_height)
        visible == visible_indices(self)
        text_width == text_width_of(inner_width)
        first == IF self.scroll_offset <= Len(visible)
                 THEN self.scroll_offset ELSE Len(visible)
        line_counts ==
            [p \in 1..Len(visible) |->
                IF p <= first THEN 0
                ELSE Len(wrap_lines(self.backlog[visible[p] + 1].description,
                                    text_width))]
        wanted == sum_upto(line_counts, Len(visible))
    IN /\ \A line \in lines :
              /\ line.y \in 0..(inner_height - 1)
              /\ line.cols \subseteq 0..(inner_width - 1)
              /\ line.visible_idx >= self.scroll_offset
       /\ (inner_width < 10 \/ inner_height < 1) => lines = {}
       /\ (inner_width >= 10 /\ inner_height >= 1) =>
              /\ Cardinality(lines) = Min(inner_height, wanted)
              /\ {line.y : line \in lines} = 0..(Cardinality(lines) - 1)
              /\ \A a, b \in lines : (a.y < b.y) = Before(a, b)
              /\ \A b \in lines :
                     \A p \in first..b.visible_idx :
                         \A l \in 0..(line_counts[p + 1] - 1) :
                             (p < b.visible_idx \/ l < b.line_idx) =>
                                 \E a \in lines :
                                     a.visible_idx = p /\ a.line_idx = l

\* C22: for every viewport size, a zero area included, every cell the list
\* renderer writes lies inside the inner rectangle; below inner width 10 or
\* inner height 1 it writes none; otherwise it draws the rows in visible
\* order from scroll_offset on, at most inner.height lines, and nothing of
\* the rows and wrapped lines beyond.
C22_InsideViewport ==
    pc = "frame" =>
      \A width \in ViewWidths \cup SmallSizes,
       chunk_height \in ViewChunkHeights \cup SmallSizes :
        /\ C22_Rendered(app, inner_of(width), inner_of(chunk_height))
        /\ C22_Rendered(frame_of(app, width, chunk_height).app,
                        inner_of(width), inner_of(chunk_height))

\* C22 witness: a frame is due over three visible rows, the first of them
\* wrapping, with the second row selected, so that a viewport of inner
\* height 2 cuts the list inside a row and one of inner height 4 after it.
C22_Witness ==
    /\ pc = "frame"
    /\ VisibleCount(app) = 3
    /\ app.selected = 1
    /\ app.scroll_offset = 0
    /\ app.backlog[visible_to_actual(app, 0) + 1].description = long_desc
    /\ Cardinality(frame_lines(app, 12, 6)) = 4
    /\ \E line \in frame_lines(app, 12, 6) :
           line.visible_idx = 1 /\ line.y = 3

\* C23: while the hide-completed filter is active the row at visible
\* position p (0-based) is numbered p + 1, whatever the item's index in the
\* store: a single visible item at store position 3 is numbered 1.
C23_FilteredNumbering ==
    (pc = "frame" /\ app.hide_completed) =>
        \A width \in ViewWidths, chunk_height \in ViewChunkHeights :
            \A line \in frame_lines(app, width, chunk_height) :
                line.display_num = line.visible_idx + 1

\* C23 witness: the filter hides the first two of three items and a frame
\* draws the third as its only row.
C23_Witness ==
    /\ pc = "frame"
    /\ app.hide_completed
    /\ Len(app.backlog) = 3
    /\ app.backlog[1].done /\ app.backlog[2].done /\ ~app.backlog[3].done
    /\ \E line \in frame_lines(app, 12, 6) :
           /\ line.visible_idx = 0 /\ line.line_idx = 0
           /\ line.display_num = 1
           /\ visible_to_actual(app, line.visible_idx) = 2

\* C24: while the hide-completed filter is active each visible row's number
\* is its actual index + 1, and while it is inactive the rows are numbered
\* 1..N by position.
C24_NumberingMode ==
    pc = "frame" =>
        \A width \in ViewWidths, chunk_height \in ViewChunkHeights :
            \A line \in frame_lines(app, width, chunk_height) :
                IF app.hide_completed
                THEN line.display_num =
                         visible_to_actual(app, line.visible_idx) + 1
                ELSE line.display_num = line.visible_idx + 1

\* C27: after the scroll adjustment with h = floor((chunk height - 2) / 2),
\* scroll_offset <= selected; selected < scroll_offset + h when h > 0;
\* scroll_offset is left alone when h = 0 and selected >= scroll_offset; and
\* selected - h + 1 is computed only when selected - h is not negative.
C27_ScrollAdjustment ==
    pc = "frame" =>
        \A chunk_height \in ViewChunkHeights :
            LET h == list_height_of(chunk_height)
                after == adjust_scroll(app, h)
                moved_down == /\ ~(app.selected < app.scroll_offset)
                              /\ h > 0
                              /\ app.selected >= app.scroll_offset + h
            IN /\ h = (chunk_height - 2) \div 2
               /\ after = [app EXCEPT !.scroll_offset = after.scroll_offset]
               /\ 0 <= after.scroll_offset
               /\ after.scroll_offset <= after.selected
               /\ h > 0 => after.selected < after.scroll_offset + h
               /\ (h = 0 /\ app.selected >= app.scroll_offset) =>
                      after.scroll_offset = app.scroll_offset
               /\ moved_down => app.selected - h >= 0

\* C27 witness: the third row is selected while the list is scrolled to its
\* top; a chunk of height 4 (h = 1) scrolls down to it, one of height 6
\* (h = 2) to the row before it, one of height 3 (h = 0) not at all.
C27_Witness ==
    /\ pc = "frame"
    /\ app.selected = 2
    /\ app.scroll_offset = 0
    /\ adjust_scroll(app, list_height_of(4)).scroll_offset = 2
    /\ adjust_scroll(app, list_height_of(6)).scroll_offset = 1
    /\ adjust_scroll(app, list_height_of(3)).scroll_offset = 0

\* C25: from every state of a running session, whatever the mode, the
\* buffer and the pending-delete flag, two Escape presses in a row end the
\* session with no output and leave the store and the persisted store as
\* they were: the first returns Add, Edit or ConfirmDelete to Normal, or
\* ends the session from Normal.
C25_EscapeTwice ==
    WaitingForKey =>
        \A ok \in BOOLEAN :
            LET first == handle_key(app, Special("Esc"), ok, utc_now)
                both == press_all(app, <<Special("Esc"), Special("Esc")>>, ok)
            IN /\ app.mode = "Normal" => first.ctl = "break"
               /\ app.mode # "Normal" =>
                      first.ctl = "continue" /\ first.app.mode = "Normal"
               /\ both.ctl = "break"
               /\ both.app.output = NoOutput
               /\ both.app.backlog = app.backlog
               /\ both.app.file = app.file
               /\ both.app.save_result = "none"

\* C25 witness: the input box of Add mode holds typed text while the file
\* lags behind the store after a failed save.
C25_Witness ==
    /\ WaitingForKey
    /\ app.mode = "Add"
    /\ app.edit_buffer # <<>>
    /\ app.file # app.backlog
    /\ press_all(app, <<Special("Esc"), Special("Esc")>>, TRUE).ctl = "break"

\* The keys of Normal mode that lead to another mode, and the keys that
\* lead back without a deletion.
LeavingKeys == {Char(ch_e), Char(ch_a), Special("Delete"), Special("Backspace")}
ReturningKeys == {Special("Esc"), Special("Enter"), Char(ch_n)}

\* C26: whenever the session waits for a key, an armed pending-delete flag
\* implies Normal mode; the keys that lead to Add, Edit or ConfirmDelete
\* disarm it and no key arms it there, so a 'd' before another mode and a
\* 'd' after the return to Normal delete nothing.
C26_ArmedOnlyInNormal ==
    /\ (pc \in {"frame", "read"} /\ app.pending_d) => app.mode = "Normal"
    /\ WaitingForKey =>
           \A k \in KeysOffered(app), ok \in BOOLEAN :
               LET handled == handle_key(app, k, ok, utc_now)
               IN (app.mode # "Normal" \/ handled.app.mode # "Normal") =>
                      ~handled.app.pending_d
    /\ (WaitingForKey /\ app.mode = "Normal") =>
           \A leave \in LeavingKeys, back \in ReturningKeys, ok \in BOOLEAN :
               LET armed == handle_key(app, Char(ch_d), ok, utc_now).app
                   away == handle_key(armed, leave, ok, utc_now).app
                   home == handle_key(away, back, ok, utc_now)
                   after == handle_key(home.app, Char(ch_d), ok, utc_now).app
               IN (~app.pending_d /\ home.ctl = "continue"
                       /\ home.app.mode = "Normal") =>
                      /\ Len(after.backlog) = Len(home.app.backlog)
                      /\ Len(home.app.backlog) = Len(app.backlog)
                      /\ after.pending_d

\* C26 witness: the flag is armed in Normal mode over a visible item, and
\* the Add key leads to Add mode with the flag disarmed.
C26_Witness ==
    /\ WaitingForKey
    /\ app.mode = "Normal"
    /\ app.pending_d
    /\ VisibleCount(app) > 0
    /\ LET away == handle_key(app, Char(ch_a), TRUE, utc_now).app
       IN away.mode = "Add" /\ ~away.pending_d

====
